---- MODULE Spec2Model ----
(***************************************************************************)
(* Resume analyzer: the Dashboard wizard (src/src/pages/Account.tsx,       *)
(* second component), the Account history view (first component) and the   *)
(* LLM client analyzeResume (src/unnamed/part_000).                        *)
(*                                                                         *)
(* JavaScript values are represented as follows.                           *)
(*   string that the code trims/hashes : a sequence of one-character       *)
(*                                       strings, NoText for null/undefined*)
(*   opaque string (file name, message, user id) : a TLA+ string, Null for *)
(*                                       null                              *)
(*   JSON value / object               : a record with a tag field t,      *)
(*                                       JsonNull for null                 *)
(***************************************************************************)
EXTENDS Integers, Sequences, FiniteSets, TLC

(* ------------------------------ bounds -------------------------------- *)
\* the wizard in use (Spec): handleAnalyze invocations awaiting a reply at the
\* same time, and rows the resume_analyses table may hold
MaxTasks == 1
MaxRecords == 1
\* handleAnalyze on its own (SpecHandler): the same two bounds
MaxCalls == 1
MaxRows == 1
\* times the clock may be advanced
MaxClockTicks == 1
\* the account view (SpecAccount): fetchResumeHistory invocations awaiting the
\* reply, and rows the table holds from the start
MaxFetches == 1
MaxSeedRows == 2
\* the replies of the completion API (SpecReply): characters of a match_score
MaxScoreLen == 3
\* analyses that overlap (SpecOverlap): handleAnalyze invocations awaiting a
\* reply at the same time, and rows the table may hold
MaxOverlap == 2
MaxOverlapRows == 2
\* two users (SpecUsers): rows the table may hold
MaxUserRows == 2
MaxTimers == 1
MaxPendingFetches == 2
MaxSelected == 2

(* --------------------------- value encoding --------------------------- *)
Null == "<null>"
NoText == <<"<null>">>
JsonNull == [t |-> "null"]

WhiteSpace == {" ", "\n", "\t"}

RECURSIVE TrimStart(_)
TrimStart(s) ==
  IF s = <<>> THEN <<>>
  ELSE IF Head(s) \in WhiteSpace THEN TrimStart(Tail(s)) ELSE s

RECURSIVE TrimEnd(_)
TrimEnd(s) ==
  IF s = <<>> THEN <<>>
  ELSE IF s[Len(s)] \in WhiteSpace THEN TrimEnd(SubSeq(s, 1, Len(s) - 1)) ELSE s

\* String.prototype.trim
Trim(s) == TrimEnd(TrimStart(s))

\* !text.trim() : the empty string is the only falsy string
IsBlank(s) == Trim(s) = <<>>

\* a string operand of || and && : null, undefined and '' are falsy
TruthyText(s) == s # NoText /\ s # <<>>

\* x || ''
OrEmpty(s) == IF TruthyText(s) THEN s ELSE <<>>

\* Array.prototype.includes
Includes(seq, x) == \E i \in 1..Len(seq) : seq[i] = x

\* the digest of a text: deterministic, and distinct texts get distinct digests
GenerateSHA256Hash(text) == <<"sha256:">> \o text

(* -------------------------- analysis options -------------------------- *)
analysisOptions ==
  << [id |-> "job_match_analysis",      isPremium |-> FALSE, isCore |-> TRUE],
     [id |-> "ats_compatibility",       isPremium |-> FALSE, isCore |-> FALSE],
     [id |-> "impact_statement_review", isPremium |-> FALSE, isCore |-> FALSE],
     [id |-> "skills_gap_assessment",   isPremium |-> TRUE,  isCore |-> FALSE],
     [id |-> "format_optimization",     isPremium |-> TRUE,  isCore |-> FALSE],
     [id |-> "career_story_flow",       isPremium |-> TRUE,  isCore |-> FALSE] >>

\* analysisOptions.find(option => option.id === type)?.isPremium
IsPremiumType(type) ==
  \E i \in 1..Len(analysisOptions) :
    /\ analysisOptions[i].id = type
    /\ \A j \in 1..(i - 1) : analysisOptions[j].id # type
    /\ analysisOptions[i].isPremium

\* the check boxes of step 2 that are not disabled
EnabledCheckboxes ==
  { analysisOptions[i].id : i \in { j \in 1..Len(analysisOptions) : ~analysisOptions[j].isPremium } }

(* ------------------------------ LLM client ---------------------------- *)
OPENAI_API_KEY == "configured"

\* replies the completion API may give to one request: the promise of fetch
\* rejects, the status is not a success, or the body carries a message whose
\* content is some text, with or without a markdown fence around it
ResultA ==
  [t |-> "object", match_summary |-> "A",
   match_score |-> <<"7", "2", "/", "1", "0", "0">>,
   job_keywords_detected |-> << [keyword |-> "sql", status |-> "Present"],
                                [keyword |-> "go",  status |-> "Missing"] >>,
   gaps_and_suggestions |-> <<"gap">>]

ResultB ==
  [t |-> "object", match_summary |-> "B",
   match_score |-> <<"8", "5", "%">>,
   job_keywords_detected |-> << [keyword |-> "go", status |-> "Present"] >>,
   gaps_and_suggestions |-> <<>>,
   ats_compatibility |-> [score |-> 7, summary |-> "ok", issues |-> <<"tables">>,
                          suggestions |-> <<>>]]

\* valid JSON that is not an analysis result
NoScoreObject == [t |-> "object", match_summary |-> "no score"]

JsonDocuments == {ResultA, ResultB, NoScoreObject, JsonNull}

\* the replies tried while the whole wizard is explored
WizardResponses ==
  { [kind |-> "status", ok |-> TRUE, content |-> c] :
      c \in { <<ResultA>>, <<JsonNull>>, <<[t |-> "prose"]>> } }

\* the content of a reply is a sequence of tokens: a fence (three backquotes,
\* with or without "json"), a run of prose, or a JSON document
Fence == [t |-> "fence"]
Prose == [t |-> "prose"]

Contents ==
  UNION { { <<d>>, <<Fence, d, Fence>> } : d \in JsonDocuments }
    \cup { <<Prose>>, <<Prose, Fence, ResultA, Fence, Prose>>, <<Prose, ResultA>>,
           <<Fence, ResultA>>, <<Fence, Prose, Fence>> }

LlmResponses ==
  { [kind |-> "rejected"], [kind |-> "status", ok |-> FALSE] }
    \cup { [kind |-> "status", ok |-> TRUE, content |-> c] : c \in Contents }

\* text.match(/```(?:json)?\s*([\s\S]*?)\s*```/) : what stands between the
\* first fence and the next one, the whole text when there is no such pair
extractJsonFromMarkdown(text) ==
  LET fences == { i \in 1..Len(text) : text[i] = Fence }
  IN  IF Cardinality(fences) >= 2
        THEN LET open  == CHOOSE i \in fences : \A j \in fences : i <= j
                 close == CHOOSE i \in fences \ {open} :
                            \A j \in fences \ {open} : i <= j
             IN  SubSeq(text, open + 1, close - 1)
        ELSE text

\* JSON.parse: the value of a text that is one JSON document, a SyntaxError
\* for any other text
JsonParse(text) ==
  IF Len(text) = 1 /\ text[1].t \in {"object", "null"}
    THEN [ok |-> TRUE, value |-> text[1]]
    ELSE [ok |-> FALSE, message |-> "SyntaxError"]

\* analyzeResume from the reply on: the value returned, or the message of the
\* Error thrown
AnalyzeResumeReply(response) ==
  IF OPENAI_API_KEY = Null
    THEN [ok |-> FALSE, message |-> "OpenAI API key not configured"]
  ELSE IF response.kind = "rejected"
    THEN [ok |-> FALSE, message |-> "Failed to fetch"]
  ELSE IF ~response.ok
    THEN [ok |-> FALSE, message |-> "OpenAI API error"]
  ELSE LET parsed == JsonParse(extractJsonFromMarkdown(response.content))
       IN  IF parsed.ok
             THEN [ok |-> TRUE, value |-> parsed.value]
             ELSE [ok |-> FALSE,
                   message |-> "Invalid JSON response from AI. Please try again."]

(* -------------------------- numeric score ----------------------------- *)
Digits == <<"0", "1", "2", "3", "4", "5", "6", "7", "8", "9">>

IsDigit(c) == \E d \in 1..10 : Digits[d] = c

DigitValue(c) == (CHOOSE d \in 1..10 : Digits[d] = c) - 1

RECURSIVE SkipToDigit(_)
SkipToDigit(s) ==
  IF s = <<>> THEN <<>>
  ELSE IF IsDigit(Head(s)) THEN s ELSE SkipToDigit(Tail(s))

RECURSIVE TakeDigits(_)
TakeDigits(s) ==
  IF s = <<>> \/ ~IsDigit(Head(s)) THEN <<>>
  ELSE <<Head(s)>> \o TakeDigits(Tail(s))

RECURSIVE ParseInt(_)
ParseInt(ds) ==
  IF ds = <<>> THEN 0
  ELSE 10 * ParseInt(SubSeq(ds, 1, Len(ds) - 1)) + DigitValue(ds[Len(ds)])

\* matchScore.match(/(\d+)/) : parseInt of the first run of digits, 0 without one
getNumericScore(matchScore) == ParseInt(TakeDigits(SkipToDigit(matchScore)))

\* Number -> string, as a template literal formats a non-negative integer
RECURSIVE NumberToText(_)
NumberToText(n) ==
  IF n < 10 THEN <<Digits[n + 1]>>
  ELSE NumberToText(n \div 10) \o <<Digits[(n % 10) + 1]>>

(* ------------------------------- state -------------------------------- *)
VARIABLES
  \* Dashboard (the wizard view)
  dashboardState,   \* useState<DashboardState>
  isAnalyzing,      \* useState(false)
  isUploading,      \* useState(false)
  error,            \* useState<string | null>(null)
  storage,          \* sessionStorage[STORAGE_KEY]
  tasks,            \* the handleAnalyze invocations awaiting a reply, oldest first
  upload,           \* the file whose text extraction is awaited, Null when none
  \* Account (profile and history view)
  activeTab,        \* useState('profile')
  resumeHistory,    \* useState<ResumeAnalysis[]>([])
  isLoading,        \* useState(false)
  accountError,     \* Account's useState<string | null>(null)
  openDropdownId,   \* useState<string | null>(null)
  fetches,          \* fetchResumeHistory invocations awaiting the reply
  profileData,      \* useState({ name, email, address, profile_picture_url })
  isSaving,         \* useState(false)
  success,          \* useState<string | null>(null)
  saves,            \* handleProfileUpdate invocations awaiting a reply
  timers,           \* pending setTimeout(() => setSuccess(null), 3000) callbacks
  \* shared
  route,            \* the router's location: path and location.state
  user,             \* useAuth().user : the id of the signed-in user, Null when none
  userProfile,      \* useAuth().userProfile : the provider's copy of the user's row
  users,            \* the rows of table users, by id
  records,          \* the rows of table resume_analyses
  now,              \* the clock (Date.now), in hours
  ticks,            \* how often the clock was advanced
  last              \* what the last step did (history variable); a step that no
                    \* property singles out is recorded as "other"

dashVars == <<dashboardState, isAnalyzing, isUploading, error, storage, tasks, upload>>
accountVars == <<activeTab, resumeHistory, isLoading, accountError, openDropdownId, fetches>>
clockVars == <<now, ticks>>
profileVars == <<profileData, isSaving, success, saves, timers, userProfile, users>>
vars == <<dashVars, accountVars, profileVars, route, user, records, clockVars, last>>

(* ------------------------------ profile ------------------------------- *)
\* x || null of a form field
OrNull(text) == IF TruthyText(text) THEN text ELSE NoText

\* useAuth().userProfile while no row is loaded
NoProfile == [id |-> Null]

EmptyProfileData ==
  [name |-> <<>>, email |-> <<>>, address |-> <<>>, profile_picture_url |-> <<>>]

\* the effect on [userProfile]: the form is filled from the provider's copy
ProfileEffect(data, profile) ==
  IF profile = NoProfile THEN data
  ELSE [name |-> OrEmpty(profile.name),
        email |-> OrEmpty(profile.email),
        address |-> OrEmpty(profile.address),
        profile_picture_url |-> OrEmpty(profile.profile_picture_url)]

\* a row of table users as sign-up leaves it
UserRow(id, name) ==
  [id |-> id, name |-> name, email |-> <<"e", id>>,
   address |-> NoText, profile_picture_url |-> NoText]

\* the account view is mounted with nothing awaited, over the given table
ProfileMounted(table) ==
  /\ users = table
  /\ userProfile = IF user = Null THEN NoProfile ELSE table[user]
  /\ profileData = ProfileEffect(EmptyProfileData, userProfile)
  /\ isSaving = FALSE
  /\ success = Null
  /\ saves = <<>>
  /\ timers = 0

SignedUpUsers == [id \in {"u1", "u2"} |-> UserRow(id, NoText)]

(* --------------------------- wizard state ----------------------------- *)
STORAGE_KEY == "zolla_dashboard_state"

\* a variant of the initial state with no analysis type selected
getInitialStateNoneSelected ==
  [currentStep |-> 1,
   resumeText |-> <<>>,
   jobDescription |-> <<>>,
   selectedAnalysisTypes |-> <<>>,
   fileName |-> Null,
   analysisResult |-> JsonNull,
   usedCachedResult |-> FALSE]

getInitialState ==
  [currentStep |-> 1,
   resumeText |-> <<>>,
   jobDescription |-> <<>>,
   selectedAnalysisTypes |-> <<"job_match_analysis">>,
   fileName |-> Null,
   analysisResult |-> JsonNull,
   usedCachedResult |-> FALSE]

\* the own properties of a DashboardState, in the order JSON.stringify visits them
StateKeys ==
  <<"currentStep", "resumeText", "jobDescription", "selectedAnalysisTypes",
    "fileName", "analysisResult", "usedCachedResult">>

NoItem == [t |-> "null"]

\* JSON.stringify(dashboardState): one "key": value member per own property
JsonStringifyState(s) ==
  [t |-> "string",
   members |-> [i \in 1..Len(StateKeys) |-> <<StateKeys[i], s[StateKeys[i]]>>]]

\* JSON.parse of such a text: an object with the keys of the members, a later
\* member winning over an earlier one of the same key
JsonParseState(item) ==
  LET m == item.members
      keys == { m[i][1] : i \in 1..Len(m) }
      lastOf(k) == CHOOSE i \in 1..Len(m) :
                     m[i][1] = k /\ \A j \in 1..Len(m) : m[j][1] = k => j <= i
  IN  [k \in keys |-> m[lastOf(k)][2]]

\* a variant of the merge in which the defaults win over what was parsed,
\* { ...b, ...a }
SpreadDefaultsLast(a, b) ==
  [k \in DOMAIN a \cup DOMAIN b |-> IF k \in DOMAIN a THEN a[k] ELSE b[k]]

\* { ...a, ...b }
Spread(a, b) ==
  [k \in DOMAIN a \cup DOMAIN b |-> IF k \in DOMAIN b THEN b[k] ELSE a[k]]

NoLocationState == [t |-> "null"]

\* a JSON value in a condition: null is falsy, an object is truthy
TruthyJson(v) == v # JsonNull

\* location.state?.initialAnalysisResult
HasInitialAnalysisResult(locationState) ==
  /\ locationState # NoLocationState
  /\ "initialAnalysisResult" \in DOMAIN locationState
  /\ TruthyJson(locationState.initialAnalysisResult)

\* a variant of loadState that lays the historical result over the parsed
\* mirror rather than over the initial state
loadStateOverMirror(locationState, savedState) ==
  LET base == IF savedState # NoItem
                THEN [k \in DOMAIN getInitialState |->
                        IF k \in DOMAIN JsonParseState(savedState)
                          THEN JsonParseState(savedState)[k] ELSE getInitialState[k]]
                ELSE getInitialState
  IN  IF HasInitialAnalysisResult(locationState)
        THEN [base EXCEPT
                !.currentStep = 4,
                !.analysisResult = locationState.initialAnalysisResult,
                !.resumeText = OrEmpty(locationState.originalResumeText),
                !.jobDescription = OrEmpty(locationState.originalJobDescription),
                !.usedCachedResult = TRUE]
        ELSE base

\* loadState, given location.state and what sessionStorage.getItem returns
loadState(locationState, savedState) ==
  IF HasInitialAnalysisResult(locationState)
    THEN [getInitialState EXCEPT
            !.currentStep = 4,
            !.analysisResult = locationState.initialAnalysisResult,
            !.resumeText = OrEmpty(locationState.originalResumeText),
            !.jobDescription = OrEmpty(locationState.originalJobDescription),
            !.usedCachedResult = TRUE]
  ELSE IF savedState # NoItem
    THEN Spread(getInitialState, JsonParseState(savedState))
  ELSE getInitialState

\* the save effect: sessionStorage.setItem(STORAGE_KEY, JSON.stringify(state))
SaveEffect(s) == JsonStringifyState(s)

\* setDashboardState(s) followed by the save effect its re-render runs
SetDashboardState(s) ==
  /\ dashboardState' = s
  /\ storage' = SaveEffect(s)

isJobMatchSelected == Includes(dashboardState.selectedAnalysisTypes, "job_match_analysis")

(* ------------------------- rows of the table -------------------------- *)
NoId == 0

\* a variant of the lookup without the user_id filter
MatchingAnyUser(userId, resumeText, jobDescription) ==
  { r \in records :
      /\ r.resume_hash = GenerateSHA256Hash(resumeText)
      /\ r.job_description_hash = GenerateSHA256Hash(jobDescription) }

\* the rows a lookup for (user, resume, job description) matches
Matching(userId, resumeText, jobDescription) ==
  { r \in records :
      /\ r.user_id = userId
      /\ r.resume_hash = GenerateSHA256Hash(resumeText)
      /\ r.job_description_hash = GenerateSHA256Hash(jobDescription) }

\* .limit(1).single(): a row when the query succeeds and matches one, an error
\* otherwise (no row is an error of single())
SingleReplies(matches, queryOk) ==
  IF queryOk /\ matches # {}
    THEN { [queryError |-> FALSE, row |-> r] : r \in matches }
    ELSE { [queryError |-> TRUE] }

\* keyword_matches.map(keyword => ({ keyword, status: 'Present' }))
AsPresent(keywords) ==
  [i \in 1..Len(keywords) |-> [keyword |-> keywords[i], status |-> "Present"]]

\* a variant of the cached result that is always rebuilt from the columns
CachedResultRebuilt(row) ==
  [t |-> "object",
   match_summary |-> "retrieved from your previous submission",
   match_score |-> NumberToText(row.compatibility_score) \o <<"/", "1", "0", "0">>,
   job_keywords_detected |-> AsPresent(row.keyword_matches),
   gaps_and_suggestions |-> row.experience_gaps]

\* existingAnalysis.analysis_details || { ...rebuilt from the columns }
CachedResult(row) ==
  IF TruthyJson(row.analysis_details)
    THEN row.analysis_details
    ELSE [t |-> "object",
          match_summary |-> "retrieved from your previous submission",
          match_score |-> NumberToText(row.compatibility_score) \o <<"/", "1", "0", "0">>,
          job_keywords_detected |-> AsPresent(row.keyword_matches),
          gaps_and_suggestions |-> row.experience_gaps]

\* a parsed reply the insert code can read without a TypeError
Readable(result) ==
  /\ result # JsonNull
  /\ "match_score" \in DOMAIN result
  /\ "job_keywords_detected" \in DOMAIN result

\* result.job_keywords_detected.filter(Present).map(keyword)
PresentKeywords(result) ==
  LET kw == result.job_keywords_detected
      present == SelectSeq(kw, LAMBDA item : item.status = "Present")
  IN  [i \in 1..Len(present) |-> present[i].keyword]

\* the object handed to insert(), with the id and creation time the table adds
NewRow(task) ==
  [id |-> Cardinality(records) + 1,
   user_id |-> task.user,
   compatibility_score |-> getNumericScore(task.result.match_score),
   keyword_matches |-> PresentKeywords(task.result),
   experience_gaps |-> IF "gaps_and_suggestions" \in DOMAIN task.result
                         THEN task.result.gaps_and_suggestions ELSE <<>>,
   skill_gaps |-> <<>>,
   resume_hash |-> GenerateSHA256Hash(task.resumeText),
   job_description_hash |-> GenerateSHA256Hash(task.jobDescription),
   analysis_details |-> task.result,
   original_resume_text |-> task.resumeText,
   original_job_description |-> IF task.needsJobDescription
                                  THEN task.jobDescription ELSE NoText,
   tailored_resume |-> NoText,
   cover_letter |-> NoText,
   created_at |-> now]

(* --------------------------- handleAnalyze ---------------------------- *)
\* what the Dashboard's handlers leave alone
DashFrame == UNCHANGED <<accountVars, route, user, clockVars, profileVars>>

OnDashboard == route.path = "/dashboard"

needsJobDescription(s) == Includes(s.selectedAnalysisTypes, "job_match_analysis")

\* a variant of the validation that asks for a job description whatever is selected
ValidationErrorAnySelection(s, u) ==
  IF IsBlank(s.resumeText)
    THEN "Please provide your resume text."
  ELSE IF IsBlank(s.jobDescription)
    THEN "Please provide the job description for job match analysis."
  ELSE IF u = Null
    THEN "Please sign in to analyze your resume."
  ELSE Null

\* a variant of the validation without the sign-in test
ValidationErrorNoUser(s, u) ==
  IF IsBlank(s.resumeText)
    THEN "Please provide your resume text."
  ELSE IF needsJobDescription(s) /\ IsBlank(s.jobDescription)
    THEN "Please provide the job description for job match analysis."
  ELSE Null

\* the message of the first test that fails, Null when all pass
ValidationError(s, u) ==
  IF IsBlank(s.resumeText)
    THEN "Please provide your resume text."
  ELSE IF needsJobDescription(s) /\ IsBlank(s.jobDescription)
    THEN "Please provide the job description for job match analysis."
  ELSE IF u = Null
    THEN "Please sign in to analyze your resume."
  ELSE Null

\* the types passed to analyzeResume
\* a variant of the filter that drops job match only
AllowedAnalysisTypesWithPremium(types) ==
  SelectSeq(types, LAMBDA type : type # "job_match_analysis")

\* lines 776-784: the types handed to analyzeResume
AllowedAnalysisTypes(types) ==
  SelectSeq(SelectSeq(types, LAMBDA type : ~IsPremiumType(type)),
            LAMBDA type : type # "job_match_analysis")

\* what one invocation keeps in its closure, and where it waits
NewTask(s, u) ==
  [pc |-> IF needsJobDescription(s) THEN "lookup" ELSE "llm",
   user |-> u,
   resumeText |-> s.resumeText,
   jobDescription |-> s.jobDescription,
   selectedAnalysisTypes |-> s.selectedAnalysisTypes,
   \* the third argument of analyzeResume, once the request is sent
   passedTypes |-> AllowedAnalysisTypes(s.selectedAnalysisTypes),
   needsJobDescription |-> needsJobDescription(s),
   result |-> JsonNull,
   \* history: requests sent to the completion API, how the lookup was
   \* answered, and whether a matching row was stored when it was answered
   llmRequests |-> IF needsJobDescription(s) THEN 0 ELSE 1,
   lookup |-> IF needsJobDescription(s) THEN "pending" ELSE "skipped",
   matched |-> FALSE]

\* history: how an invocation of handleAnalyze ended, and the row it read or wrote
Analyzed(outcome, task, rowId) ==
  [op |-> "analyzed", outcome |-> outcome, user |-> task.user,
   resumeText |-> task.resumeText, jobDescription |-> task.jobDescription,
   needsJobDescription |-> task.needsJobDescription,
   llmRequests |-> task.llmRequests, lookup |-> task.lookup,
   matched |-> task.matched, rowId |-> rowId]

Without(seq, i) == SubSeq(seq, 1, i - 1) \o SubSeq(seq, i + 1, Len(seq))

\* lines 712-741 and, without job match, 775-785: the checks, then the first request
handleAnalyze ==
  LET message == ValidationError(dashboardState, user)
  IN  IF message # Null
        THEN /\ error' = message
             /\ last' = [op |-> "handleAnalyze", started |-> FALSE]
             /\ UNCHANGED <<dashboardState, isAnalyzing, isUploading, storage, tasks, upload>>
        ELSE /\ isAnalyzing' = TRUE
             /\ error' = Null
             /\ SetDashboardState([dashboardState EXCEPT !.usedCachedResult = FALSE])
             /\ tasks' = Append(tasks, NewTask(dashboardState, user))
             /\ last' = [op |-> "handleAnalyze", started |-> TRUE]
             /\ UNCHANGED <<isUploading, upload>>

\* lines 744-773: the reply to the lookup
LookupReply(i, queryOk) ==
  /\ i \in 1..Len(tasks)
  /\ tasks[i].pc = "lookup"
  /\ LET task == tasks[i]
         matches == Matching(task.user, task.resumeText, task.jobDescription)
     IN  \E reply \in SingleReplies(matches, queryOk) :
           IF ~reply.queryError
             THEN /\ SetDashboardState([dashboardState EXCEPT
                                          !.analysisResult = CachedResult(reply.row),
                                          !.usedCachedResult = TRUE,
                                          !.currentStep = 4])
                  /\ isAnalyzing' = FALSE
                  /\ tasks' = Without(tasks, i)
                  /\ last' = Analyzed("cached", [task EXCEPT !.matched = TRUE, !.lookup = "row"],
                                       reply.row.id)
                  /\ UNCHANGED error
             ELSE /\ tasks' = [tasks EXCEPT ![i].pc = "llm",
                                            ![i].llmRequests = @ + 1,
                                            ![i].lookup = IF queryOk THEN "empty" ELSE "failed",
                                            ![i].matched = (matches # {})]
                  /\ last' = [op |-> "other"]
                  /\ UNCHANGED <<dashboardState, storage, isAnalyzing, error>>
  /\ UNCHANGED <<isUploading, upload, records>>
  /\ DashFrame

\* a variant of the failure path without the finally block
AnalyzeFailedNoFinally(i, message) ==
  /\ error' = message
  /\ isAnalyzing' = isAnalyzing
  /\ tasks' = Without(tasks, i)

\* the catch and finally blocks, lines 810-814
AnalyzeFailed(i, message) ==
  /\ error' = message
  /\ isAnalyzing' = FALSE
  /\ tasks' = Without(tasks, i)

\* lines 781-806: the reply of the completion API, up to the insert request
LlmReply(i, response) ==
  /\ i \in 1..Len(tasks)
  /\ tasks[i].pc = "llm"
  /\ LET task == tasks[i]
         reply == AnalyzeResumeReply(response)
     IN  IF ~reply.ok
           THEN /\ AnalyzeFailed(i, reply.message)
                /\ last' = Analyzed("llmFailed", task, NoId)
                /\ UNCHANGED <<dashboardState, storage>>
         ELSE IF ~task.needsJobDescription
           THEN /\ SetDashboardState([dashboardState EXCEPT
                                        !.analysisResult = reply.value,
                                        !.currentStep = 4])
                /\ isAnalyzing' = FALSE
                /\ tasks' = Without(tasks, i)
                /\ last' = Analyzed("fresh", task, NoId)
                /\ UNCHANGED error
         ELSE IF ~Readable(reply.value)
           THEN /\ SetDashboardState([dashboardState EXCEPT !.analysisResult = reply.value])
                /\ AnalyzeFailed(i, "TypeError")
                /\ last' = Analyzed("unreadable", task, NoId)
         ELSE /\ SetDashboardState([dashboardState EXCEPT !.analysisResult = reply.value])
              /\ tasks' = [tasks EXCEPT ![i].pc = "insert", ![i].result = reply.value]
              /\ last' = [op |-> "other"]
              /\ UNCHANGED <<isAnalyzing, error>>
  /\ UNCHANGED <<isUploading, upload, records>>
  /\ DashFrame

\* lines 795-813: the insert is answered (its error, if any, is not looked at)
InsertReply(i, insertOk) ==
  /\ i \in 1..Len(tasks)
  /\ tasks[i].pc = "insert"
  /\ records' = IF insertOk THEN records \cup {NewRow(tasks[i])} ELSE records
  /\ SetDashboardState([dashboardState EXCEPT !.currentStep = 4])
  /\ isAnalyzing' = FALSE
  /\ tasks' = Without(tasks, i)
  /\ last' = Analyzed("fresh", tasks[i], IF insertOk THEN NewRow(tasks[i]).id ELSE NoId)
  /\ UNCHANGED <<isUploading, upload, error>>
  /\ DashFrame

(* ------------------------ the wizard's controls ----------------------- *)
\* step 1, the textarea: onChange
SetResumeText(text) ==
  /\ OnDashboard /\ dashboardState.currentStep = 1
  /\ SetDashboardState([dashboardState EXCEPT !.resumeText = text])
  /\ last' = [op |-> "other"]
  /\ UNCHANGED <<isAnalyzing, isUploading, error, tasks, upload, records>>
  /\ DashFrame

\* a variant of the Next button that is disabled only while a file is read
Step1NextOverBlank ==
  /\ OnDashboard /\ dashboardState.currentStep = 1
  /\ ~isUploading
  /\ SetDashboardState([dashboardState EXCEPT !.currentStep = 2])
  /\ last' = [op |-> "other"]
  /\ UNCHANGED <<isAnalyzing, isUploading, error, tasks, upload, records>>
  /\ DashFrame

\* step 1, the Next button
Step1Next ==
  /\ OnDashboard /\ dashboardState.currentStep = 1
  /\ ~(IsBlank(dashboardState.resumeText) \/ isUploading)
  /\ SetDashboardState([dashboardState EXCEPT !.currentStep = 2])
  /\ last' = [op |-> "other"]
  /\ UNCHANGED <<isAnalyzing, isUploading, error, tasks, upload, records>>
  /\ DashFrame

\* handleFileUpload up to the await; the input is rendered only while no file
\* is being read or shown
handleFileUpload(file) ==
  /\ OnDashboard /\ dashboardState.currentStep = 1
  /\ ~isUploading /\ dashboardState.fileName = Null
  /\ isUploading' = TRUE
  /\ error' = Null
  /\ SetDashboardState([dashboardState EXCEPT !.fileName = file])
  /\ upload' = file
  /\ last' = [op |-> "other"]
  /\ UNCHANGED <<isAnalyzing, tasks, records>>
  /\ DashFrame

\* variant: the catch block clears the resume text along with the file name
FileExtractedClearsText(outcome) ==
  /\ upload # Null
  /\ IF outcome.ok
       THEN /\ SetDashboardState([dashboardState EXCEPT !.resumeText = outcome.text])
            /\ UNCHANGED error
       ELSE /\ error' = outcome.message
            /\ SetDashboardState([dashboardState EXCEPT !.fileName = Null,
                                                        !.resumeText = <<>>])
  /\ isUploading' = FALSE
  /\ upload' = Null
  /\ last' = [op |-> "fileExtracted", ok |-> outcome.ok]
  /\ UNCHANGED <<isAnalyzing, tasks, records>>
  /\ DashFrame

\* handleFileUpload after the await: extractTextFromFile returned or threw
FileExtracted(outcome) ==
  /\ upload # Null
  /\ IF outcome.ok
       THEN /\ SetDashboardState([dashboardState EXCEPT !.resumeText = outcome.text])
            /\ UNCHANGED error
       ELSE /\ error' = outcome.message
            /\ SetDashboardState([dashboardState EXCEPT !.fileName = Null])
  /\ isUploading' = FALSE
  /\ upload' = Null
  /\ last' = [op |-> "fileExtracted", ok |-> outcome.ok]
  /\ UNCHANGED <<isAnalyzing, tasks, records>>
  /\ DashFrame

handleRemoveFile ==
  /\ OnDashboard /\ dashboardState.currentStep = 1
  /\ ~isUploading /\ dashboardState.fileName # Null
  /\ SetDashboardState([dashboardState EXCEPT !.fileName = Null, !.resumeText = <<>>])
  /\ error' = Null
  /\ last' = [op |-> "other"]
  /\ UNCHANGED <<isAnalyzing, isUploading, tasks, upload, records>>
  /\ DashFrame

\* step 2, a check box that is not disabled
handleAnalysisTypeChange(analysisType) ==
  /\ OnDashboard /\ dashboardState.currentStep = 2
  /\ LET types == dashboardState.selectedAnalysisTypes
     IN  SetDashboardState([dashboardState EXCEPT !.selectedAnalysisTypes =
           IF Includes(types, analysisType)
             THEN SelectSeq(types, LAMBDA type : type # analysisType)
             ELSE Append(types, analysisType)])
  /\ last' = [op |-> "other"]
  /\ UNCHANGED <<isAnalyzing, isUploading, error, tasks, upload, records>>
  /\ DashFrame

Step2Back ==
  /\ OnDashboard /\ dashboardState.currentStep = 2
  /\ SetDashboardState([dashboardState EXCEPT !.currentStep = 1])
  /\ last' = [op |-> "other"]
  /\ UNCHANGED <<isAnalyzing, isUploading, error, tasks, upload, records>>
  /\ DashFrame

\* a variant of step 2 whose proceed button is never disabled
Step2ProceedAlwaysEnabled == TRUE

\* step 2, the proceed button: disabled without a selected type
Step2ProceedEnabled == Len(dashboardState.selectedAnalysisTypes) # 0

Step2Proceed ==
  /\ OnDashboard /\ dashboardState.currentStep = 2
  /\ Step2ProceedEnabled
  /\ IF isJobMatchSelected
       THEN /\ SetDashboardState([dashboardState EXCEPT !.currentStep = 3])
            /\ last' = [op |-> "other"]
            /\ UNCHANGED <<isAnalyzing, isUploading, error, tasks, upload>>
       ELSE handleAnalyze
  /\ UNCHANGED records
  /\ DashFrame

\* step 3, the textarea: onChange
SetJobDescription(text) ==
  /\ OnDashboard /\ dashboardState.currentStep = 3
  /\ SetDashboardState([dashboardState EXCEPT !.jobDescription = text])
  /\ last' = [op |-> "other"]
  /\ UNCHANGED <<isAnalyzing, isUploading, error, tasks, upload, records>>
  /\ DashFrame

Step3Back ==
  /\ OnDashboard /\ dashboardState.currentStep = 3
  /\ SetDashboardState([dashboardState EXCEPT !.currentStep = 2])
  /\ last' = [op |-> "other"]
  /\ UNCHANGED <<isAnalyzing, isUploading, error, tasks, upload, records>>
  /\ DashFrame

\* step 3, the analyze button
Step3AnalyzeEnabled == ~(IsBlank(dashboardState.jobDescription) \/ isAnalyzing)

Step3Analyze ==
  /\ OnDashboard /\ dashboardState.currentStep = 3
  /\ Step3AnalyzeEnabled
  /\ handleAnalyze
  /\ UNCHANGED records
  /\ DashFrame

\* a variant of the reset after which no save effect runs: the slot stays removed
handleResetAnalysisNoSave ==
  /\ OnDashboard /\ dashboardState.currentStep = 4
  /\ dashboardState' = getInitialState
  /\ storage' = NoItem
  /\ error' = Null
  /\ last' = [op |-> "reset"]
  /\ UNCHANGED <<isAnalyzing, isUploading, tasks, upload, records>>
  /\ DashFrame

\* step 4, "Analyze Another Resume"
handleResetAnalysis ==
  /\ OnDashboard /\ dashboardState.currentStep = 4
  \* sessionStorage.removeItem(STORAGE_KEY) comes first; the state set next is a
  \* new object, so the save effect runs after it
  /\ SetDashboardState(getInitialState)
  /\ error' = Null
  /\ last' = [op |-> "reset"]
  /\ UNCHANGED <<isAnalyzing, isUploading, tasks, upload, records>>
  /\ DashFrame

\* the page is loaded again: the component state is built anew from the
\* mirror, and what the old page was awaiting is gone
Reload ==
  /\ OnDashboard
  /\ SetDashboardState(loadState(route.state, storage))
  /\ isAnalyzing' = FALSE
  /\ isUploading' = FALSE
  /\ error' = Null
  /\ tasks' = <<>>
  /\ upload' = Null
  /\ last' = [op |-> "reload"]
  /\ UNCHANGED records
  /\ DashFrame

\* the session changes: somebody signs in, or the user signs out
AuthChange(u) ==
  /\ user # u
  /\ user' = u
  /\ userProfile' = IF u = Null THEN NoProfile ELSE users[u]
  /\ profileData' = IF route.path = "/account"
                    THEN ProfileEffect(profileData, userProfile')
                    ELSE profileData
  /\ last' = [op |-> "authChange"]
  /\ UNCHANGED <<dashVars, accountVars, route, records, clockVars>>
  /\ UNCHANGED <<isSaving, success, saves, timers, users>>

(* ------------------------- inputs of the model ------------------------ *)
ResumeTexts == { <<" ">>, <<"r">> }
JobTexts == { <<>>, <<"j">> }
Files == { "cv.docx" }
ExtractOutcomes ==
  { [ok |-> TRUE, text |-> <<"r">>],
    [ok |-> FALSE, message |-> "Failed to process file"] }
Users == { "u1", "u2" }
CheckboxesUsed == { "job_match_analysis", "ats_compatibility" }

(* --------------------------- the wizard in use ------------------------ *)
\* the Dashboard is mounted on a fresh session; the mount runs the save effect
Init ==
  /\ dashboardState = getInitialState
  /\ storage = SaveEffect(getInitialState)
  /\ isAnalyzing = FALSE
  /\ isUploading = FALSE
  /\ error = Null
  /\ tasks = <<>>
  /\ upload = Null
  /\ activeTab = "profile"
  /\ resumeHistory = <<>>
  /\ isLoading = FALSE
  /\ accountError = Null
  /\ openDropdownId = NoId
  /\ fetches = <<>>
  /\ route = [path |-> "/dashboard", state |-> NoLocationState]
  /\ user = "u1"
  /\ records = {}
  /\ now = 0
  /\ ticks = 0
  /\ ProfileMounted(SignedUpUsers)
  /\ last = [op |-> "mount"]

\* the bounds of a run: at most maxTasks invocations in flight, and the table
\* answers an insert with an error once it holds maxRows rows
WithinTasks(maxTasks) == Len(tasks') <= maxTasks
WithinRows(maxRows) == Cardinality(records') <= maxRows

Next ==
  \/ \E text \in ResumeTexts : SetResumeText(text)
  \/ Step1Next
  \/ \E file \in Files : handleFileUpload(file)
  \/ \E outcome \in ExtractOutcomes : FileExtracted(outcome)
  \/ handleRemoveFile
  \/ \E type \in CheckboxesUsed : handleAnalysisTypeChange(type)
  \/ Step2Back
  \/ Step2Proceed /\ WithinTasks(MaxTasks)
  \/ \E text \in JobTexts : SetJobDescription(text)
  \/ Step3Back
  \/ Step3Analyze /\ WithinTasks(MaxTasks)
  \/ \E i \in 1..MaxTasks, queryOk \in BOOLEAN : LookupReply(i, queryOk)
  \/ \E i \in 1..MaxTasks, response \in WizardResponses : LlmReply(i, response)
  \/ \E i \in 1..MaxTasks, insertOk \in BOOLEAN :
       InsertReply(i, insertOk) /\ WithinRows(MaxRecords)
  \/ handleResetAnalysis
  \/ Reload

Spec == Init /\ [][Next]_vars

(* ------------------------ handleAnalyze on its own -------------------- *)
\* the handler is called whatever the wizard state is: its own checks, not the
\* buttons' disabled flags, decide what happens
InvokeHandleAnalyze ==
  /\ OnDashboard
  /\ handleAnalyze
  /\ UNCHANGED records
  /\ DashFrame

\* time is counted in hours: the code counts milliseconds, in numbers that do
\* not overflow
TimeUnit == 60 * 60 * 1000
Day == (24 * 60 * 60 * 1000) \div TimeUnit
Retention == 30 * Day
ClockSteps == { Day \div 2, Retention, Retention + 1 }

AdvanceClock(step) ==
  /\ ticks < MaxClockTicks
  /\ now' = now + step
  /\ ticks' = ticks + 1
  /\ last' = [op |-> "other"]
  /\ UNCHANGED <<dashVars, accountVars, profileVars, route, user, records>>

HandlerResumeTexts == { <<>>, <<" ">>, <<"r">> }
HandlerJobTexts == { <<>>, <<" ">>, <<"j">> }
HandlerSelections ==
  { <<>>, <<"job_match_analysis">>, <<"ats_compatibility">>,
    <<"job_match_analysis", "ats_compatibility">> }

InitHandler ==
  /\ \E r \in HandlerResumeTexts, j \in HandlerJobTexts, types \in HandlerSelections :
       dashboardState = [getInitialState EXCEPT !.currentStep = 3,
                                                !.resumeText = r,
                                                !.jobDescription = j,
                                                !.selectedAnalysisTypes = types]
  /\ storage = SaveEffect(dashboardState)
  /\ isAnalyzing = FALSE
  /\ isUploading = FALSE
  /\ error = Null
  /\ tasks = <<>>
  /\ upload = Null
  /\ activeTab = "profile"
  /\ resumeHistory = <<>>
  /\ isLoading = FALSE
  /\ accountError = Null
  /\ openDropdownId = NoId
  /\ fetches = <<>>
  /\ route = [path |-> "/dashboard", state |-> NoLocationState]
  /\ user \in {"u1", Null}
  /\ records = {}
  /\ now = 0
  /\ ticks = 0
  /\ ProfileMounted(SignedUpUsers)
  /\ last = [op |-> "mount"]

NextHandler ==
  \/ InvokeHandleAnalyze /\ WithinTasks(MaxCalls)
  \/ \E i \in 1..MaxCalls, queryOk \in BOOLEAN : LookupReply(i, queryOk)
  \/ \E i \in 1..MaxCalls, response \in LlmResponses : LlmReply(i, response)
  \/ \E i \in 1..MaxCalls, insertOk \in BOOLEAN :
       InsertReply(i, insertOk) /\ WithinRows(MaxRows)
  \/ \E step \in ClockSteps : AdvanceClock(step)

SpecHandler == InitHandler /\ [][NextHandler]_vars

(* --------------------------- the account view ------------------------- *)
OnAccount == route.path = "/account"

\* -(-a \div b) is the ceiling of a / b
CeilDiv(a, b) == -((-a) \div b)

Max(a, b) == IF a >= b THEN a ELSE b

getDaysRemaining(createdAt) ==
  LET expiryDate == createdAt + Retention
      daysRemaining == CeilDiv(expiryDate - now, Day)
  IN  Max(0, daysRemaining)

\* a variant of the expiry test that no row can meet
isExpiredBelowZero(analysis) == getDaysRemaining(analysis.created_at) < 0

\* lines 397-400: what the list computes for one row when it renders
isExpired(analysis) == getDaysRemaining(analysis.created_at) = 0

hasContent(analysis) ==
  TruthyText(analysis.tailored_resume) \/ TruthyJson(analysis.analysis_details)

\* a variant of canUpgrade that does not look at the tailored resume
canUpgradeIgnoringTailored(analysis) ==
  /\ TruthyText(analysis.original_resume_text)
  /\ TruthyText(analysis.original_job_description)
  /\ ~isExpired(analysis)

canUpgrade(analysis) ==
  /\ TruthyText(analysis.original_resume_text)
  /\ TruthyText(analysis.original_job_description)
  /\ ~TruthyText(analysis.tailored_resume)
  /\ ~isExpired(analysis)

\* lines 442 and 454: the two buttons of the row's menu
OffersView(analysis) == hasContent(analysis) /\ ~isExpired(analysis)
OffersUpgrade(analysis) == canUpgrade(analysis)

\* the list is rendered: the history tab is shown and nothing is loading
ListShown == OnAccount /\ activeTab = "history" /\ ~isLoading

Shown(analysis) == \E i \in 1..Len(resumeHistory) : resumeHistory[i] = analysis

AccountFrame == UNCHANGED <<dashVars, route, user, records, clockVars, profileVars>>

\* a tab button; the effect on activeTab starts fetchResumeHistory when the tab
\* becomes 'history' (lines 65-74)
SetActiveTab(tab) ==
  /\ OnAccount
  /\ activeTab' = tab
  /\ IF tab = "history" /\ activeTab # "history" /\ user # Null
       THEN /\ isLoading' = TRUE
            /\ fetches' = Append(fetches, [user |-> user])
       ELSE UNCHANGED <<isLoading, fetches>>
  /\ last' = [op |-> "other"]
  /\ UNCHANGED <<resumeHistory, accountError, openDropdownId>>
  /\ AccountFrame

\* .select('*').eq('user_id', id).order('created_at', { ascending: false })
HistoryRows(userId) ==
  LET rows == { r \in records : r.user_id = userId }
      n == Cardinality(rows)
  IN  { f \in [1..n -> rows] :
          /\ \A i, j \in 1..n : i # j => f[i] # f[j]
          /\ \A i, j \in 1..n : i < j => f[i].created_at >= f[j].created_at }

\* the rows a request brings: those the table held when it ran the query, if
\* that moment is told apart from the arrival of the reply, else those it holds now
FetchedRows(fetch) ==
  IF "data" \in DOMAIN fetch THEN {fetch.data} ELSE HistoryRows(fetch.user)

\* the table runs the query of a request that is under way
FetchAnswered(i) ==
  /\ i \in 1..Len(fetches)
  /\ "data" \notin DOMAIN fetches[i]
  /\ \E data \in HistoryRows(fetches[i].user) :
       fetches' = [fetches EXCEPT ![i] = @ @@ ("data" :> data)]
  /\ last' = [op |-> "other"]
  /\ UNCHANGED <<activeTab, resumeHistory, isLoading, accountError, openDropdownId>>
  /\ AccountFrame

\* fetchResumeHistory after the await (lines 82-88)
FetchReply(i, fetchOk) ==
  /\ i \in 1..Len(fetches)
  /\ IF fetchOk
       THEN /\ \E data \in FetchedRows(fetches[i]) : resumeHistory' = data
            /\ UNCHANGED accountError
       ELSE /\ accountError' = "Failed to load resume history"
            /\ UNCHANGED resumeHistory
  /\ isLoading' = FALSE
  /\ fetches' = Without(fetches, i)
  \* history: the reply arrived before that of a request started earlier
  \* whose query the table had already run
  /\ last' = [op |-> "fetched", ok |-> fetchOk,
              overtook |-> i > 1 /\ "data" \in DOMAIN fetches[1]]
  /\ UNCHANGED <<activeTab, openDropdownId>>
  /\ AccountFrame

toggleDropdown(analysisId) ==
  /\ ListShown
  /\ \E i \in 1..Len(resumeHistory) : resumeHistory[i].id = analysisId
  /\ openDropdownId' = IF openDropdownId = analysisId THEN NoId ELSE analysisId
  /\ last' = [op |-> "other"]
  /\ UNCHANGED <<activeTab, resumeHistory, isLoading, accountError, fetches>>
  /\ AccountFrame

\* the result handleViewResume builds for a row without analysis_details
HistoricalResult(analysis) ==
  [t |-> "object",
   match_summary |-> "This is a historical analysis from your account.",
   match_score |-> NumberToText(analysis.compatibility_score) \o <<"/", "1", "0", "0">>,
   job_keywords_detected |-> AsPresent(analysis.keyword_matches),
   gaps_and_suggestions |-> analysis.experience_gaps]

\* where handleViewResume navigates, and the location.state it passes
ViewTarget(analysis) ==
  IF TruthyText(analysis.tailored_resume) /\ ~IsBlank(analysis.tailored_resume)
    THEN [path |-> "/success",
          state |-> [t |-> "state",
                     tailoredResume |-> analysis.tailored_resume,
                     coverLetter |-> analysis.cover_letter]]
  ELSE IF TruthyJson(analysis.analysis_details)
    THEN [path |-> "/dashboard",
          state |-> [t |-> "state",
                     initialAnalysisResult |-> analysis.analysis_details,
                     originalResumeText |-> analysis.original_resume_text,
                     originalJobDescription |-> analysis.original_job_description,
                     fromHistory |-> TRUE]]
  ELSE [path |-> "/dashboard",
        state |-> [t |-> "state",
                   initialAnalysisResult |-> HistoricalResult(analysis),
                   originalResumeText |-> analysis.original_resume_text,
                   originalJobDescription |-> analysis.original_job_description,
                   fromHistory |-> TRUE]]

\* the Dashboard mounts at location.state `locationState`: useState(loadState),
\* then the effects: location.state is replaced by {} and the state is saved
MountDashboard(locationState) ==
  /\ SetDashboardState(loadState(locationState, storage))
  /\ isAnalyzing' = FALSE
  /\ isUploading' = FALSE
  /\ error' = Null
  /\ tasks' = <<>>
  /\ upload' = Null
  /\ route' = [path |-> "/dashboard",
               state |-> IF HasInitialAnalysisResult(locationState)
                           THEN [t |-> "state"] ELSE locationState]

\* the view button of the open menu
handleViewResume(analysis) ==
  /\ ListShown /\ Shown(analysis)
  /\ openDropdownId = analysis.id
  /\ OffersView(analysis)
  /\ openDropdownId' = NoId
  /\ LET target == ViewTarget(analysis)
     IN  IF target.path = "/dashboard"
           THEN /\ MountDashboard(target.state)
                /\ last' = [op |-> "viewAnalysis", supplied |-> target.state,
                            mirror |-> storage]
           ELSE /\ route' = target
                /\ last' = [op |-> "viewResume"]
                /\ UNCHANGED dashVars
  /\ UNCHANGED <<activeTab, resumeHistory, isLoading, accountError, fetches>>
  /\ UNCHANGED <<user, records, clockVars, profileVars>>

\* the upgrade button of the open menu
handleUpgradeAnalysis(analysis) ==
  /\ ListShown /\ Shown(analysis)
  /\ openDropdownId = analysis.id
  /\ OffersUpgrade(analysis)
  /\ openDropdownId' = NoId
  /\ IF TruthyText(analysis.original_resume_text)
          /\ TruthyText(analysis.original_job_description)
       THEN route' = [path |-> "/premium",
                      state |-> [t |-> "state",
                                 resumeText |-> analysis.original_resume_text,
                                 jobDescription |-> analysis.original_job_description,
                                 analysisResult |->
                                   IF TruthyJson(analysis.analysis_details)
                                     THEN analysis.analysis_details
                                     ELSE HistoricalResult(analysis)]]
       ELSE UNCHANGED route
  /\ last' = [op |-> "upgrade", id |-> analysis.id]
  /\ UNCHANGED <<activeTab, resumeHistory, isLoading, accountError, fetches>>
  /\ UNCHANGED <<dashVars, user, records, clockVars, profileVars>>

\* the user opens the account page: Account mounts with its initial state
GoToAccount ==
  /\ ~OnAccount
  /\ route' = [path |-> "/account", state |-> NoLocationState]
  /\ activeTab' = "profile"
  /\ resumeHistory' = <<>>
  /\ isLoading' = FALSE
  /\ accountError' = Null
  /\ openDropdownId' = NoId
  /\ fetches' = <<>>
  /\ profileData' = ProfileEffect(EmptyProfileData, userProfile)
  /\ isSaving' = FALSE
  /\ success' = Null
  \* what the unmounted view awaited goes on, but its setters reach nothing
  /\ saves' = [i \in DOMAIN saves |-> [saves[i] EXCEPT !.live = FALSE]]
  /\ timers' = 0
  /\ last' = [op |-> "other"]
  /\ UNCHANGED <<dashVars, user, records, clockVars, userProfile, users>>

\* "Analyze Your First Resume", or the dashboard link: navigate('/dashboard')
GoToDashboard ==
  /\ OnAccount
  /\ MountDashboard(NoLocationState)
  /\ last' = [op |-> "openDashboard", mirror |-> storage]
  /\ UNCHANGED <<accountVars, user, records, clockVars, profileVars>>

(* ---------------------- the account view in use ----------------------- *)
\* rows the table may hold when the account page is opened: one written by
\* handleAnalyze, one the premium flow completed, one of an older format
\* without details or original texts, one with details only, one of another user
SeedRow(id, userId, details, resumeText, jobDescription, tailored) ==
  [id |-> id,
   user_id |-> userId,
   compatibility_score |-> 72,
   keyword_matches |-> <<"sql">>,
   experience_gaps |-> <<"gap">>,
   skill_gaps |-> <<>>,
   resume_hash |-> IF resumeText = NoText THEN NoText ELSE GenerateSHA256Hash(resumeText),
   job_description_hash |->
     IF jobDescription = NoText THEN NoText ELSE GenerateSHA256Hash(jobDescription),
   analysis_details |-> details,
   original_resume_text |-> resumeText,
   original_job_description |-> jobDescription,
   tailored_resume |-> tailored,
   cover_letter |-> IF tailored = NoText THEN NoText ELSE <<"c">>,
   created_at |-> 0]

\* the first two rows were created at the same moment, the rows of the older
\* format one and two hours before them
SeedRows ==
  { SeedRow(1, "u1", ResultA, <<"r">>, <<"j">>, NoText),
    SeedRow(2, "u1", JsonNull, <<"r">>, <<"j">>, <<"t">>),
    [SeedRow(3, "u1", JsonNull, NoText, NoText, NoText) EXCEPT !.created_at = -1],
    [SeedRow(4, "u1", ResultB, NoText, NoText, NoText) EXCEPT !.created_at = -2],
    SeedRow(5, "u2", ResultA, <<"r">>, <<"j">>, NoText) }

\* what the mirror may hold from an earlier visit of the wizard
SavedWizardState ==
  [currentStep |-> 3,
   resumeText |-> <<"x">>,
   jobDescription |-> <<"y">>,
   selectedAnalysisTypes |-> <<"ats_compatibility">>,
   fileName |-> "old.docx",
   analysisResult |-> NoScoreObject,
   usedCachedResult |-> FALSE]

InitAccount ==
  /\ dashboardState = getInitialState
  /\ storage \in { NoItem, SaveEffect(SavedWizardState) }
  /\ isAnalyzing = FALSE
  /\ isUploading = FALSE
  /\ error = Null
  /\ tasks = <<>>
  /\ upload = Null
  /\ activeTab = "profile"
  /\ resumeHistory = <<>>
  /\ isLoading = FALSE
  /\ accountError = Null
  /\ openDropdownId = NoId
  /\ fetches = <<>>
  /\ route = [path |-> "/account", state |-> NoLocationState]
  /\ user = "u1"
  /\ records \in { rows \in SUBSET SeedRows : Cardinality(rows) <= MaxSeedRows }
  /\ now = 0
  /\ ticks = 0
  /\ ProfileMounted(SignedUpUsers)
  /\ last = [op |-> "mount"]

NextAccount ==
  \/ \E tab \in {"profile", "history"} : SetActiveTab(tab) /\ Len(fetches') <= MaxFetches
  \/ \E i \in 1..MaxFetches, fetchOk \in BOOLEAN : FetchReply(i, fetchOk)
  \/ \E analysis \in records : toggleDropdown(analysis.id)
  \/ \E analysis \in records : handleViewResume(analysis)
  \/ \E analysis \in records : handleUpgradeAnalysis(analysis)
  \/ GoToAccount
  \/ GoToDashboard
  \/ handleResetAnalysis
  \/ Reload
  \/ \E step \in ClockSteps : AdvanceClock(step)

SpecAccount == InitAccount /\ [][NextAccount]_vars

(* ------------------- the replies of the completion API ---------------- *)
\* the handler is run on one job-match submission at a time, for every reply
\* out of a family of JSON documents: analyzeResume returns what JSON.parse
\* gives, whatever the fields hold
ScoreAlphabet == { "0", "1", "5", "/" }

\* the strings a reply may carry as match_score, up to MaxScoreLen characters
ScoreTexts == UNION { [1..n -> ScoreAlphabet] : n \in 0..MaxScoreLen }

ReplyResponses ==
  { [kind |-> "status", ok |-> TRUE,
     content |-> <<[ResultA EXCEPT !.match_score = s]>>] : s \in ScoreTexts }

\* the optional sections of AnalysisResult, each with score: number
SectionNames ==
  { "ats_compatibility", "impact_statement_review", "skills_gap_assessment",
    "format_optimization", "career_story_flow" }

\* the numbers a reply may carry as the score of a section
SectionScores == { -1, 0, 10, 11 }

SectionResponses ==
  { [kind |-> "status", ok |-> TRUE,
     content |-> <<[ResultB EXCEPT !.ats_compatibility.score = n]>>] :
    n \in SectionScores }

ReplySelections ==
  { <<"job_match_analysis">>, <<"job_match_analysis", "ats_compatibility">> }

InitReply ==
  /\ \E types \in ReplySelections :
       dashboardState = [getInitialState EXCEPT !.currentStep = 3,
                                                !.resumeText = <<"r">>,
                                                !.jobDescription = <<"j">>,
                                                !.selectedAnalysisTypes = types]
  /\ storage = SaveEffect(dashboardState)
  /\ isAnalyzing = FALSE
  /\ isUploading = FALSE
  /\ error = Null
  /\ tasks = <<>>
  /\ upload = Null
  /\ activeTab = "profile"
  /\ resumeHistory = <<>>
  /\ isLoading = FALSE
  /\ accountError = Null
  /\ openDropdownId = NoId
  /\ fetches = <<>>
  /\ route = [path |-> "/dashboard", state |-> NoLocationState]
  /\ user = "u1"
  /\ records = {}
  /\ now = 0
  /\ ticks = 0
  /\ ProfileMounted(SignedUpUsers)
  /\ last = [op |-> "mount"]

NextReply ==
  \/ tasks = <<>> /\ records = {} /\ InvokeHandleAnalyze
  \/ \E queryOk \in BOOLEAN : LookupReply(1, queryOk)
  \/ \E response \in ReplyResponses \cup SectionResponses : LlmReply(1, response)
  \/ \E insertOk \in BOOLEAN : InsertReply(1, insertOk)

SpecReply == InitReply /\ [][NextReply]_vars

(* ------------------------ analyses that overlap ----------------------- *)
\* the wizard from step 3 of a filled-in submission, with the controls that
\* stay enabled while an analysis is pending: Back and the check boxes, and the
\* proceed button of step 2, whose disabled flag does not read isAnalyzing
OverlapResponses ==
  { [kind |-> "status", ok |-> FALSE],
    [kind |-> "status", ok |-> TRUE, content |-> <<ResultB>>] }

InitOverlap ==
  /\ dashboardState = [getInitialState EXCEPT !.currentStep = 3,
                                              !.resumeText = <<"r">>,
                                              !.jobDescription = <<"j">>]
  /\ storage = SaveEffect(dashboardState)
  /\ isAnalyzing = FALSE
  /\ isUploading = FALSE
  /\ error = Null
  /\ tasks = <<>>
  /\ upload = Null
  /\ activeTab = "profile"
  /\ resumeHistory = <<>>
  /\ isLoading = FALSE
  /\ accountError = Null
  /\ openDropdownId = NoId
  /\ fetches = <<>>
  /\ route = [path |-> "/dashboard", state |-> NoLocationState]
  /\ user = "u1"
  \* nothing stored yet, or the row of an earlier analysis of the same texts
  /\ records \in { {}, {SeedRow(1, "u1", ResultA, <<"r">>, <<"j">>, NoText)} }
  /\ now = 0
  /\ ticks = 0
  /\ ProfileMounted(SignedUpUsers)
  /\ last = [op |-> "mount"]

NextOverlap ==
  \/ Step1Next
  \/ \E type \in CheckboxesUsed : handleAnalysisTypeChange(type)
  \/ Step2Back
  \/ Step2Proceed /\ WithinTasks(MaxOverlap)
  \/ Step3Back
  \/ Step3Analyze /\ WithinTasks(MaxOverlap)
  \/ \E i \in 1..MaxOverlap, queryOk \in BOOLEAN : LookupReply(i, queryOk)
  \/ \E i \in 1..MaxOverlap, response \in OverlapResponses : LlmReply(i, response)
  \/ \E i \in 1..MaxOverlap, insertOk \in BOOLEAN :
       InsertReply(i, insertOk) /\ WithinRows(MaxOverlapRows)
  \/ handleResetAnalysis

SpecOverlap == InitOverlap /\ [][NextOverlap]_vars

(* --------------------- two users, the same texts ---------------------- *)
\* either user is signed in for the whole session; the table may hold the row
\* of the other user's analysis of the very same resume and job description
OtherUsersRow == SeedRow(1, "u2", ResultB, <<"r">>, <<"j">>, NoText)

InitUsers ==
  /\ dashboardState = [getInitialState EXCEPT !.currentStep = 3,
                                              !.resumeText = <<"r">>,
                                              !.jobDescription = <<"j">>]
  /\ storage = SaveEffect(dashboardState)
  /\ isAnalyzing = FALSE
  /\ isUploading = FALSE
  /\ error = Null
  /\ tasks = <<>>
  /\ upload = Null
  /\ activeTab = "profile"
  /\ resumeHistory = <<>>
  /\ isLoading = FALSE
  /\ accountError = Null
  /\ openDropdownId = NoId
  /\ fetches = <<>>
  /\ route = [path |-> "/dashboard", state |-> NoLocationState]
  /\ user \in Users
  /\ records \in { {}, {OtherUsersRow},
                   {OtherUsersRow, SeedRow(2, "u1", ResultA, <<"r">>, <<"j">>, NoText)} }
  /\ now = 0
  /\ ticks = 0
  /\ ProfileMounted(SignedUpUsers)
  /\ last = [op |-> "mount"]

NextUsers ==
  \/ tasks = <<>> /\ InvokeHandleAnalyze
  \/ \E queryOk \in BOOLEAN : LookupReply(1, queryOk)
  \/ \E response \in OverlapResponses : LlmReply(1, response)
  \/ \E insertOk \in BOOLEAN : InsertReply(1, insertOk) /\ WithinRows(MaxUserRows)
  \/ handleResetAnalysis
  \/ tasks = <<>> /\ GoToAccount
  \/ \E tab \in {"profile", "history"} : SetActiveTab(tab) /\ Len(fetches') <= MaxFetches
  \/ \E i \in 1..MaxFetches, fetchOk \in BOOLEAN : FetchReply(i, fetchOk)
  \/ GoToDashboard

SpecUsers == InitUsers /\ [][NextUsers]_vars

(* -------------------------- the profile form -------------------------- *)
ProfileFormShown == OnAccount /\ activeTab = "profile"

ProfileFrame == UNCHANGED <<dashVars, route, user, records, clockVars>>

HistoryUntouched ==
  UNCHANGED <<activeTab, resumeHistory, isLoading, openDropdownId, fetches>>

\* the inputs that have an onChange handler; the email input is disabled and
\* has none
EditableFields == { "name", "address", "profile_picture_url" }

\* onChange of an input: setProfileData({ ...profileData, [field]: value })
SetProfileData(field, value) ==
  /\ ProfileFormShown
  /\ field \in EditableFields
  /\ profileData' = [profileData EXCEPT ![field] = value]
  /\ last' = [op |-> "other"]
  /\ UNCHANGED <<isSaving, success, saves, timers, userProfile, users>>
  /\ UNCHANGED accountError
  /\ HistoryUntouched
  /\ ProfileFrame

\* the submit button is disabled while a save is awaited
SaveEnabled == ProfileFormShown /\ ~isSaving

\* handleProfileUpdate up to its first await: the update request carries the
\* three fields of the form and the id of the signed-in user
handleProfileUpdate ==
  /\ SaveEnabled
  /\ IF user = Null
       THEN /\ last' = [op |-> "other"]
            /\ UNCHANGED <<isSaving, accountError, success, saves>>
       ELSE /\ isSaving' = TRUE
            /\ accountError' = Null
            /\ success' = Null
            /\ saves' = Append(saves,
                 [pc |-> "update", live |-> TRUE, user |-> user,
                  changed |-> FALSE,   \* history: the update changed the row
                  name |-> OrNull(profileData.name),
                  address |-> OrNull(profileData.address),
                  profile_picture_url |-> OrNull(profileData.profile_picture_url)])
            /\ last' = [op |-> "handleProfileUpdate"]
  /\ UNCHANGED <<profileData, timers, userProfile, users>>
  /\ HistoryUntouched
  /\ ProfileFrame

\* variant: the update also carries the form's email column
UpdateUsersWithEmail(table, save) ==
  [table EXCEPT ![save.user] =
     [@ EXCEPT !.name = save.name,
               !.email = save.name,
               !.address = save.address,
               !.profile_picture_url = save.profile_picture_url]]

\* .update({ name, address, profile_picture_url }).eq('id', user.id)
UpdateUsers(table, save) ==
  [table EXCEPT ![save.user] =
     [@ EXCEPT !.name = save.name,
               !.address = save.address,
               !.profile_picture_url = save.profile_picture_url]]

\* catch and finally of handleProfileUpdate, in the view that started the save
SaveFailed(save) ==
  IF save.live
    THEN /\ accountError' = "Failed to update profile"
         /\ isSaving' = FALSE
    ELSE UNCHANGED <<accountError, isSaving>>

\* the update is answered: the row is written and the refresh is awaited, or
\* the error is thrown to the catch block
ProfileUpdateReply(i, updateOk) ==
  /\ i \in 1..Len(saves)
  /\ saves[i].pc = "update"
  /\ IF updateOk
       THEN /\ users' = UpdateUsers(users, saves[i])
            /\ saves' = [saves EXCEPT ![i].pc = "refresh",
                                      ![i].changed = (users' # users)]
            /\ last' = [op |-> "profileUpdated", user |-> saves[i].user]
            /\ UNCHANGED <<accountError, isSaving>>
       ELSE /\ SaveFailed(saves[i])
            /\ saves' = Without(saves, i)
            /\ last' = [op |-> "profileSaveFailed", changed |-> FALSE]
            /\ UNCHANGED users
  /\ UNCHANGED <<profileData, success, timers, userProfile>>
  /\ HistoryUntouched
  /\ ProfileFrame

\* what awaiting refreshUserProfile() may bring: the provider holds the row as
\* stored now, the provider keeps its copy, or the call rejects
RefreshOutcomes == { "fresh", "stale", "throws" }

\* refreshUserProfile() is answered: the effect on [userProfile] refills the
\* form, the success message is set and its timeout is started
RefreshReply(i, outcome) ==
  /\ i \in 1..Len(saves)
  /\ saves[i].pc = "refresh"
  /\ userProfile' = IF outcome = "fresh" /\ user # Null
                      THEN users[user] ELSE userProfile
  /\ profileData' = IF outcome = "fresh" /\ OnAccount
                      THEN ProfileEffect(profileData, userProfile')
                      ELSE profileData
  /\ IF outcome = "throws"
       THEN /\ SaveFailed(saves[i])
            /\ last' = [op |-> "profileSaveFailed", changed |-> saves[i].changed]
            /\ UNCHANGED <<success, timers>>
       ELSE /\ IF saves[i].live
                 THEN /\ success' = "Profile updated successfully!"
                      /\ timers' = timers + 1
                      /\ isSaving' = FALSE
                 ELSE UNCHANGED <<success, timers, isSaving>>
            /\ last' = [op |-> "profileSaved", changed |-> saves[i].changed]
            /\ UNCHANGED accountError
  /\ saves' = Without(saves, i)
  /\ UNCHANGED users
  /\ HistoryUntouched
  /\ ProfileFrame

\* () => setSuccess(null), three seconds after a save succeeded
SuccessTimeout ==
  /\ timers > 0
  /\ timers' = timers - 1
  /\ success' = Null
  /\ last' = [op |-> "other"]
  /\ UNCHANGED <<profileData, isSaving, saves, userProfile, users>>
  /\ UNCHANGED accountError
  /\ HistoryUntouched
  /\ ProfileFrame

(* ---------------------- the profile form in use ----------------------- *)
\* the account page stays open on its profile tab, so at most one save is
\* awaited at a time
ProfileTexts == { <<>>, <<"x">> }

\* the name column is empty after sign-up or holds an earlier save
StoredNames == { NoText, <<"n">> }

WithinTimers(maxTimers) == timers' <= maxTimers

InitProfile ==
  /\ dashboardState = getInitialState
  /\ storage = NoItem
  /\ isAnalyzing = FALSE
  /\ isUploading = FALSE
  /\ error = Null
  /\ tasks = <<>>
  /\ upload = Null
  /\ activeTab = "profile"
  /\ resumeHistory = <<>>
  /\ isLoading = FALSE
  /\ accountError = Null
  /\ openDropdownId = NoId
  /\ fetches = <<>>
  /\ route = [path |-> "/account", state |-> NoLocationState]
  /\ user = "u1"
  /\ records = {}
  /\ now = 0
  /\ ticks = 0
  /\ \E name \in StoredNames :
       ProfileMounted([id \in Users |-> UserRow(id, name)])
  /\ last = [op |-> "mount"]

NextProfile ==
  \/ \E field \in EditableFields, value \in ProfileTexts : SetProfileData(field, value)
  \/ handleProfileUpdate
  \/ \E updateOk \in BOOLEAN : ProfileUpdateReply(1, updateOk)
  \/ \E outcome \in RefreshOutcomes : RefreshReply(1, outcome) /\ WithinTimers(MaxTimers)
  \/ SuccessTimeout

SpecProfile == InitProfile /\ [][NextProfile]_vars

(* ------------------------- uploads in the wizard ---------------------- *)
\* steps 1 to 3 of the wizard from its first mount, job match selected, with
\* every way an extraction can end: text, no text, blank text, an Error with
\* its own message, a thrown non-Error
UploadFiles == { "cv.docx", "cv.txt" }

UploadTexts == { <<>>, <<"r">> }

UploadOutcomes ==
  { [ok |-> TRUE, text |-> <<"x">>],
    [ok |-> TRUE, text |-> <<>>],
    [ok |-> TRUE, text |-> <<" ">>],
    [ok |-> FALSE, message |-> "Failed to process file"],
    [ok |-> FALSE, message |-> "Unsupported file type"] }

NextUpload ==
  \/ \E text \in UploadTexts : SetResumeText(text)
  \/ Step1Next
  \/ \E file \in UploadFiles : handleFileUpload(file)
  \/ \E outcome \in UploadOutcomes : FileExtracted(outcome)
  \/ handleRemoveFile
  \/ Step2Back
  \/ Step2Proceed
  \/ \E text \in JobTexts : SetJobDescription(text)
  \/ Step3Back
  \/ Reload

SpecUpload == Init /\ [][NextUpload]_vars

(* ----------------- a model that answers what it is asked -------------- *)
\* the completion API follows the prompt: the reply has the job-match fields and
\* one section for each analysis type the prompt asks for
SectionReply == [score |-> 7, summary |-> "ok", suggestions |-> <<>>]

RECURSIVE WithSections(_, _)
WithSections(result, types) ==
  IF types = <<>> THEN result
  ELSE WithSections(result @@ (Head(types) :> SectionReply), Tail(types))

\* the reply to analyzeResume(resumeText, jobDescription, selectedAnalysisTypes)
ResultFor(selectedAnalysisTypes) == WithSections(ResultA, selectedAnalysisTypes)

PromptedResponse(task) ==
  [kind |-> "status", ok |-> TRUE,
   content |-> <<ResultFor(AllowedAnalysisTypes(task.selectedAnalysisTypes))>>]

\* what step 2 can leave selected with job match kept: the premium check boxes
\* are disabled
TypeSelections ==
  { <<"job_match_analysis">>,
    <<"job_match_analysis", "ats_compatibility">>,
    <<"job_match_analysis", "impact_statement_review">>,
    <<"job_match_analysis", "ats_compatibility", "impact_statement_review">> }

\* the row an earlier analysis of the same texts left, made for the given types
EarlierRow(types) ==
  SeedRow(1, "u1", ResultFor(AllowedAnalysisTypes(types)), <<"r">>, <<"j">>, NoText)

InitTypes ==
  /\ \E types \in TypeSelections :
       dashboardState = [getInitialState EXCEPT !.currentStep = 3,
                                                !.resumeText = <<"r">>,
                                                !.jobDescription = <<"j">>,
                                                !.selectedAnalysisTypes = types]
  /\ storage = SaveEffect(dashboardState)
  /\ isAnalyzing = FALSE
  /\ isUploading = FALSE
  /\ error = Null
  /\ tasks = <<>>
  /\ upload = Null
  /\ activeTab = "profile"
  /\ resumeHistory = <<>>
  /\ isLoading = FALSE
  /\ accountError = Null
  /\ openDropdownId = NoId
  /\ fetches = <<>>
  /\ route = [path |-> "/dashboard", state |-> NoLocationState]
  /\ user = "u1"
  /\ records \in { {} } \cup { {EarlierRow(types)} : types \in TypeSelections }
  /\ now = 0
  /\ ticks = 0
  /\ ProfileMounted(SignedUpUsers)
  /\ last = [op |-> "mount"]

NextTypes ==
  \/ tasks = <<>> /\ dashboardState.currentStep = 3 /\ InvokeHandleAnalyze
  \/ \E queryOk \in BOOLEAN : LookupReply(1, queryOk)
  \/ Len(tasks) = 1 /\ LlmReply(1, PromptedResponse(tasks[1]))
  \/ \E insertOk \in BOOLEAN : InsertReply(1, insertOk)

SpecTypes == InitTypes /\ [][NextTypes]_vars

(* ------------------------ fetches that overlap ------------------------ *)
\* the account page was opened while the insert of a finished analysis was
\* still under way: the row reaches the table later, and nothing of the
\* unmounted wizard changes
PendingInsert ==
  [NewTask([getInitialState EXCEPT !.currentStep = 3,
                                   !.resumeText = <<"r">>,
                                   !.jobDescription = <<"j">>], "u1")
     EXCEPT !.pc = "insert", !.result = ResultA, !.llmRequests = 1,
            !.lookup = "empty"]

InsertLanded(i) ==
  /\ OnAccount
  /\ i \in 1..Len(tasks)
  /\ tasks[i].pc = "insert"
  /\ records' = records \cup {NewRow(tasks[i])}
  /\ tasks' = Without(tasks, i)
  /\ last' = [op |-> "other"]
  /\ UNCHANGED <<dashboardState, isAnalyzing, isUploading, error, storage, upload>>
  /\ UNCHANGED <<accountVars, profileVars, route, user, clockVars>>

InitFetches ==
  /\ dashboardState = [getInitialState EXCEPT !.currentStep = 3,
                                              !.resumeText = <<"r">>,
                                              !.jobDescription = <<"j">>,
                                              !.analysisResult = ResultA]
  /\ storage = SaveEffect(dashboardState)
  /\ isAnalyzing = TRUE
  /\ isUploading = FALSE
  /\ error = Null
  /\ tasks = <<PendingInsert>>
  /\ upload = Null
  /\ activeTab = "profile"
  /\ resumeHistory = <<>>
  /\ isLoading = FALSE
  /\ accountError = Null
  /\ openDropdownId = NoId
  /\ fetches = <<>>
  /\ route = [path |-> "/account", state |-> NoLocationState]
  /\ user = "u1"
  /\ records = {}
  /\ now = 0
  /\ ticks = 0
  /\ ProfileMounted(SignedUpUsers)
  /\ last = [op |-> "mount"]

NextFetches ==
  \/ \E tab \in {"profile", "history"} :
       SetActiveTab(tab) /\ Len(fetches') <= MaxPendingFetches
  \/ \E i \in 1..MaxPendingFetches : FetchAnswered(i)
  \/ \E i \in 1..MaxPendingFetches, fetchOk \in BOOLEAN : FetchReply(i, fetchOk)
  \/ InsertLanded(1)

SpecFetches == InitFetches /\ [][NextFetches]_vars

(* ------------------- any selection in the wizard state ---------------- *)
\* the handler is called on step 3 whatever the wizard state holds as selected
\* types: up to MaxSelected different ids of analysisOptions, premium or not
OptionIds == { analysisOptions[i].id : i \in 1..Len(analysisOptions) }

AnySelections ==
  { types \in UNION { [1..n -> OptionIds] : n \in 0..MaxSelected } :
      \A i, j \in 1..Len(types) : i # j => types[i] # types[j] }

InitSelections ==
  /\ \E types \in AnySelections :
       dashboardState = [getInitialState EXCEPT !.currentStep = 3,
                                                !.resumeText = <<"r">>,
                                                !.jobDescription = <<"j">>,
                                                !.selectedAnalysisTypes = types]
  /\ storage = SaveEffect(dashboardState)
  /\ isAnalyzing = FALSE
  /\ isUploading = FALSE
  /\ error = Null
  /\ tasks = <<>>
  /\ upload = Null
  /\ activeTab = "profile"
  /\ resumeHistory = <<>>
  /\ isLoading = FALSE
  /\ accountError = Null
  /\ openDropdownId = NoId
  /\ fetches = <<>>
  /\ route = [path |-> "/dashboard", state |-> NoLocationState]
  /\ user = "u1"
  /\ records = {}
  /\ now = 0
  /\ ticks = 0
  /\ ProfileMounted(SignedUpUsers)
  /\ last = [op |-> "mount"]

NextSelections ==
  \/ tasks = <<>> /\ dashboardState.currentStep = 3 /\ InvokeHandleAnalyze
  \/ \E queryOk \in BOOLEAN : LookupReply(1, queryOk)
  \/ \E response \in OverlapResponses : LlmReply(1, response)
  \/ \E insertOk \in BOOLEAN : InsertReply(1, insertOk)

SpecSelections == InitSelections /\ [][NextSelections]_vars

(* ====================== properties of the program ===================== *)
\* the stored row an analysis read or wrote
AnalyzedRows == { r \in records : r.id = last.rowId }

C2_NoExpiredRowReused ==
  (last.op = "analyzed" /\ last.outcome = "cached")
    => \A r \in AnalyzedRows : ~(r.created_at + Retention < now)

(* ---- C3: expired rows of the history list ---- *)
\* C3: for every row of the history list created more than 30 days ago, the
\* menu of the row offers neither the view action nor the upgrade action.
C3_ExpiredRowOffersNothing ==
  \A i \in 1..Len(resumeHistory) :
    (resumeHistory[i].created_at + Retention < now)
      => (~OffersView(resumeHistory[i]) /\ ~OffersUpgrade(resumeHistory[i]))

\* C3: the list shows a row past its 30 days that has content and both original
\* texts, and its menu is open
C3_ExpiredRowListed ==
  /\ ListShown
  /\ \E i \in 1..Len(resumeHistory) :
       /\ resumeHistory[i].created_at + Retention < now
       /\ hasContent(resumeHistory[i])
       /\ TruthyText(resumeHistory[i].original_resume_text)
       /\ TruthyText(resumeHistory[i].original_job_description)
       /\ ~TruthyText(resumeHistory[i].tailored_resume)
       /\ openDropdownId = resumeHistory[i].id

C5_HistoricalResultWins ==
  (last.op = "viewAnalysis")
    => dashboardState =
         [currentStep |-> 4,
          resumeText |-> OrEmpty(last.supplied.originalResumeText),
          jobDescription |-> OrEmpty(last.supplied.originalJobDescription),
          selectedAnalysisTypes |-> <<"job_match_analysis">>,
          fileName |-> Null,
          analysisResult |-> last.supplied.initialAnalysisResult,
          usedCachedResult |-> TRUE]

\* C5: a historical result was opened while the mirror held a saved wizard state
C5_OpenedOverSavedState ==
  /\ last.op = "viewAnalysis"
  /\ last.mirror = SaveEffect(SavedWizardState)
  /\ dashboardState.currentStep = 4

(* ---- C6: reset ---- *)
\* C6, as stated: after the reset handler has run, the wizard state is the
\* initial state and the mirror holds no saved state.
C6_ResetClearsMirror ==
  (last.op = "reset") => (dashboardState = getInitialState /\ storage = NoItem)

(* ---- C7: a blank job description ---- *)
\* C7: when handleAnalyze runs with a non-blank resume text, a blank job
\* description and a signed-in user, it goes on to request the analysis from
\* the LLM if job match is not selected, and it sends no request and reports
\* the missing job description if job match is selected.
C7_BlankJobDescription ==
  [][(/\ last'.op = "handleAnalyze"
      /\ ~IsBlank(dashboardState.resumeText)
      /\ IsBlank(dashboardState.jobDescription)
      /\ user # Null)
       => IF Includes(dashboardState.selectedAnalysisTypes, "job_match_analysis")
            THEN /\ ~last'.started
                 /\ tasks' = tasks
                 /\ error' = "Please provide the job description for job match analysis."
            ELSE /\ last'.started
                 /\ Len(tasks') = Len(tasks) + 1
                 /\ tasks'[Len(tasks')].pc = "llm"
                 /\ tasks'[Len(tasks')].llmRequests = 1
                 /\ error' = Null]_vars

\* C7: with job match selected and only the job description missing, the
\* handler has just refused
C7_Refused ==
  /\ last.op = "handleAnalyze" /\ ~last.started
  /\ error = "Please provide the job description for job match analysis."
  /\ ~IsBlank(dashboardState.resumeText)
  /\ IsBlank(dashboardState.jobDescription)
  /\ isJobMatchSelected
  /\ user # Null

(* ---- C8: step 2 without a selected type ---- *)
\* C8: from step 2 with no analysis type selected, no step of the wizard leads
\* to step 3 and none starts an analysis.
C8_NothingSelectedNoProceed ==
  [][(/\ OnDashboard
      /\ dashboardState.currentStep = 2
      /\ Len(dashboardState.selectedAnalysisTypes) = 0)
       => /\ dashboardState'.currentStep # 3
          /\ last'.op # "handleAnalyze"
          /\ Len(tasks') <= Len(tasks)]_vars

\* C8: the wizard is on step 2 with every check box cleared
C8_NothingSelected ==
  /\ OnDashboard
  /\ dashboardState.currentStep = 2
  /\ dashboardState.selectedAnalysisTypes = <<>>

(* ---- C9: a validation failure ---- *)
\* C9: when handleAnalyze runs with a blank resume text, or with job match
\* selected and a blank job description, or without a signed-in user, it sets
\* the error message, sends no request, and changes neither the wizard state
\* (nor its mirror), nor the analyzing flag, nor the stored rows.
C9_ValidationFailure ==
  [][(/\ last'.op = "handleAnalyze"
      /\ \/ IsBlank(dashboardState.resumeText)
         \/ (Includes(dashboardState.selectedAnalysisTypes, "job_match_analysis")
               /\ IsBlank(dashboardState.jobDescription))
         \/ user = Null)
       => /\ ~last'.started
          /\ error' # Null
          /\ tasks' = tasks
          /\ dashboardState' = dashboardState
          /\ storage' = storage
          /\ isAnalyzing' = isAnalyzing
          /\ records' = records]_vars

\* C9: the handler has just refused a complete submission of a user who is
\* not signed in
C9_RefusedSignedOut ==
  /\ last.op = "handleAnalyze" /\ ~last.started
  /\ error = "Please sign in to analyze your resume."
  /\ user = Null
  /\ ~IsBlank(dashboardState.resumeText)

(* ---- C10: a failed LLM call ---- *)
\* C10: when the LLM call of an analysis fails (a status that is not ok, or a
\* reply that does not parse), the analysis is over: it has sent exactly one
\* request, the error message is set, the step is not changed (so it does not
\* become 4), no row is inserted and the analyzing flag is false.
C10_LlmFailureIsTerminal ==
  [][(last'.op = "analyzed" /\ last'.outcome = "llmFailed")
       => /\ last'.llmRequests = 1
          /\ error' # Null
          /\ dashboardState'.currentStep = dashboardState.currentStep
          /\ dashboardState'.analysisResult = dashboardState.analysisResult
          /\ records' = records
          /\ isAnalyzing' = FALSE
          /\ Len(tasks') = Len(tasks) - 1]_vars

\* C10: an analysis has just ended on a reply that does not parse
C10_UnparsableReply ==
  /\ last.op = "analyzed" /\ last.outcome = "llmFailed"
  /\ last.llmRequests = 1
  /\ error = "Invalid JSON response from AI. Please try again."
  /\ ~isAnalyzing

(* ---- C11: the changes of the current step ---- *)
\* C11, as stated: every change of the current step is 1 to 2, 2 to 1, 2 to 3,
\* 3 to 2, 3 to 4 at the end of an analysis, 2 to 4 at the end of an analysis
\* while job match is not selected, or the reset to step 1; the step stays in
\* 1..4.
C11_LinearSteps ==
  [][/\ dashboardState'.currentStep \in 1..4
     /\ (dashboardState'.currentStep # dashboardState.currentStep)
          => LET from == dashboardState.currentStep
                 to == dashboardState'.currentStep
             IN  \/ from = 1 /\ to = 2
                 \/ from = 2 /\ to = 1
                 \/ from = 2 /\ to = 3
                 \/ from = 3 /\ to = 2
                 \/ from = 3 /\ to = 4 /\ last'.op = "analyzed"
                 \/ /\ from = 2 /\ to = 4 /\ last'.op = "analyzed"
                    /\ ~Includes(dashboardState.selectedAnalysisTypes,
                                 "job_match_analysis")
                 \/ to = 1 /\ last'.op = "reset"]_vars

C13_InitialStateAllEmpty ==
  (last.op \in {"mount", "reset"})
    => dashboardState = [currentStep |-> 1,
                         resumeText |-> <<>>,
                         jobDescription |-> <<>>,
                         selectedAnalysisTypes |-> <<>>,
                         fileName |-> Null,
                         analysisResult |-> JsonNull,
                         usedCachedResult |-> FALSE]

\* C13, amended: right after the first mount and right after a reset, the
\* wizard is on step 1, the resume text and the job description are empty,
\* there is no file name and no analysis result, the cached flag is false, and
\* exactly 'job_match_analysis' is selected.
C13_InitialStateJobMatchSelected ==
  (last.op \in {"mount", "reset"})
    => dashboardState = [currentStep |-> 1,
                         resumeText |-> <<>>,
                         jobDescription |-> <<>>,
                         selectedAnalysisTypes |-> <<"job_match_analysis">>,
                         fileName |-> Null,
                         analysisResult |-> JsonNull,
                         usedCachedResult |-> FALSE]

\* C13: a reset has just replaced the state of a finished analysis that was
\* run without job match
C13_ResetAfterOtherSelection ==
  /\ last.op = "reset"
  /\ dashboardState.currentStep = 1
  /\ ~isAnalyzing
  /\ records = {}
  /\ tasks = <<>>

(* ---- C14: a fresh analysis leaves a record ---- *)
\* C14, as stated: whenever an analysis ends with a result fresh from the LLM
\* and the wizard on step 4, the table holds a row of the user with the
\* submitted resume text and the displayed result, whatever was selected.
C14_FreshAnalysisStored ==
  (last.op = "analyzed" /\ last.outcome = "fresh" /\ dashboardState.currentStep = 4)
    => \E r \in records :
         /\ r.user_id = last.user
         /\ r.original_resume_text = last.resumeText
         /\ r.resume_hash = GenerateSHA256Hash(last.resumeText)
         /\ r.analysis_details = dashboardState.analysisResult

(* ---- C15: the compatibility score of an inserted row ---- *)
\* C15, as stated: every row the handler has inserted carries a compatibility
\* score that is an integer from 0 to 100, whatever string the reply gave as
\* match_score.
C15_ScoreWithinRange ==
  \A r \in records : r.compatibility_score \in 0..100

(* ---- C16: the cached flag and the origin of the displayed result ---- *)
\* C16, as stated, for the steps that change the result displayed on step 4:
\* after such a step the cached flag is true exactly when the step took the
\* result from a stored row (a lookup hit, or a history entry being opened),
\* and false when the step put in the result an LLM call returned.
C16_CachedFlagTellsOrigin ==
  [][(/\ dashboardState'.currentStep = 4
      /\ dashboardState'.analysisResult # dashboardState.analysisResult)
       => (dashboardState'.usedCachedResult
             <=> \/ (last'.op = "analyzed" /\ last'.outcome = "cached")
                 \/ last'.op = "viewAnalysis")]_vars

(* ---- C17: rows of another user ---- *)
\* C17: a lookup hit shows the signed-in user a row of their own, and every
\* row of the history list belongs to the signed-in user, also when the table
\* holds another user's row for the same resume and job description.
C17_OnlyOwnRows ==
  /\ (last.op = "analyzed" /\ last.outcome = "cached")
       => /\ AnalyzedRows # {}
          /\ \A r \in AnalyzedRows :
               r.user_id = user /\ dashboardState.analysisResult = r.analysis_details
  /\ \A i \in 1..Len(resumeHistory) : resumeHistory[i].user_id = user

\* C17: u1 has just analysed the texts u2 has a stored row for, the lookup
\* found no row and the result came from the LLM
C17_NoHitOnOtherUsersRow ==
  /\ user = "u1"
  /\ last.op = "analyzed" /\ last.outcome = "fresh"
  /\ last.needsJobDescription /\ last.lookup = "empty"
  /\ \E r \in records :
       /\ r.user_id = "u2"
       /\ r.resume_hash = GenerateSHA256Hash(last.resumeText)
       /\ r.job_description_hash = GenerateSHA256Hash(last.jobDescription)

C19_ProfileWriteFrame ==
  [][ /\ \A id \in Users : users'[id].email = users[id].email
      /\ users' # users =>
            /\ last'.op = "profileUpdated"
            /\ last'.user = user
            /\ \A id \in Users \ {user} : users'[id] = users[id]
            /\ users'[user].id = users[user].id ]_vars

\* a save has just replaced the stored name of the signed-in user
C19_ProfileWritten ==
  /\ last.op = "profileUpdated"
  /\ users[user].name = <<"x">>
  /\ users[user].email = <<"e", user>>

(* ---- C20: the scores of the optional sections ---- *)
\* C20, as stated: in the result the wizard holds and in the details of every
\* stored row, each optional section that is present has a score from 0 to 10.
C20_SectionScoresWithinRange ==
  \A result \in {dashboardState.analysisResult}
                   \cup { r.analysis_details : r \in records } :
    \A section \in SectionNames \cap DOMAIN result :
      result[section].score \in 0..10

C22_OneAnalysisInFlight ==
  [][ Len(tasks') > Len(tasks) => tasks = <<>> /\ ~isAnalyzing ]_vars

(* ---- C23: one record per user and pair of texts ---- *)
\* C23, as stated: no two stored rows have the same user, resume hash and
\* job-description hash.
C23_NoDuplicateRecords ==
  \A r1, r2 \in records :
    /\ r1.user_id = r2.user_id
    /\ r1.resume_hash = r2.resume_hash
    /\ r1.job_description_hash = r2.job_description_hash
    => r1 = r2

(* ---- C24: the result and the selected analysis types ---- *)
\* C24, as stated: when an analysis has just reached the results step, the
\* sections of the displayed result are exactly the optional non-premium types
\* selected in that submission, whether the result is fresh or a
\* deduplication hit (the completion API answering what it is asked).
C24_ResultForSelection ==
  /\ last.op = "analyzed"
  /\ last.outcome \in {"fresh", "cached"}
  /\ dashboardState.currentStep = 4
  => SectionNames \cap DOMAIN dashboardState.analysisResult
       = { type \in SectionNames :
             Includes(AllowedAnalysisTypes(dashboardState.selectedAnalysisTypes), type) }

(* ---- C25: the message of a profile save and the stored profile ---- *)
\* C25, as stated: when a save has just ended with 'Failed to update profile'
\* the save has not changed the stored profile, and when a save that changed
\* the stored profile has just ended the success message is shown.
C25_FailureMeansUnchanged ==
  last.op \in {"profileSaved", "profileSaveFailed"} =>
    /\ accountError = "Failed to update profile" => ~last.changed
    /\ last.changed => success = "Profile updated successfully!"

(* ---- C26: the results step has a result ---- *)
\* C26, as stated: whenever the wizard is on step 4 the analysis result in the
\* wizard state is not null.
C26_ResultsStepHasResult ==
  dashboardState.currentStep = 4 => dashboardState.analysisResult # JsonNull

(* ---- C27: steps 2 and 3 have a resume ---- *)
\* C27: whenever the wizard is on step 2 or step 3 the resume text is not blank.
C27_ResumeBeyondStep1 ==
  dashboardState.currentStep \in {2, 3} => ~IsBlank(dashboardState.resumeText)

\* step 2 was entered over the text of a file whose extraction had succeeded
C27_OnStep2AfterUpload ==
  /\ dashboardState.currentStep = 2
  /\ dashboardState.fileName = "cv.txt"
  /\ dashboardState.resumeText = <<"x">>

(* ---- C28: overlapping history fetches ---- *)
\* C28, in the case it names: when the reply of a later fetch has been taken
\* into the list and the reply of an earlier fetch arrives next and settles the
\* last pending fetch, the displayed list stays that of the later fetch.
C28_LatestFetchWins ==
  [][ /\ last.op = "fetched" /\ last.ok /\ last.overtook
      /\ Len(fetches) = 1 /\ fetches' = <<>>
      => resumeHistory' = resumeHistory ]_vars

(* ---- C29: the message of an earlier failed fetch ---- *)
\* C29, as stated: when a history fetch has just succeeded, the message
\* 'Failed to load resume history' is not displayed.
C29_SuccessClearsFailure ==
  last.op = "fetched" /\ last.ok => accountError # "Failed to load resume history"

(* ---- C30: the types handed to analyzeResume ---- *)
\* C30: while a request to the completion API is under way, the list of
\* analysis types it was given contains no premium type and not
\* 'job_match_analysis', whatever types the wizard state had selected.
C30_NoPremiumTypePassed ==
  \A i \in 1..Len(tasks) :
    tasks[i].pc = "llm" =>
      \A k \in 1..Len(tasks[i].passedTypes) :
        tasks[i].passedTypes[k] \notin
          { "skills_gap_assessment", "format_optimization", "career_story_flow",
            "job_match_analysis" }

\* a request is under way for a selection of job match and a premium type
C30_PremiumSelected ==
  /\ Len(tasks) = 1
  /\ tasks[1].pc = "llm"
  /\ tasks[1].selectedAnalysisTypes = <<"job_match_analysis", "career_story_flow">>
  /\ tasks[1].passedTypes = <<>>

====
